---- MODULE Spec2Model ----
(***************************************************************************)
(* examples/python-app/app.py: a Flask application with three GET routes   *)
(* ("/", "/health", "/api/info"), JSON handlers for the 404 and 500 error  *)
(* codes, and a __main__ block that reads PORT and starts the server.      *)
(*                                                                         *)
(* Strings that the program only copies are TLA+ strings; the value of an  *)
(* environment variable is a sequence of one-character strings, so that    *)
(* int() can be computed on it.  A datetime is a count of microseconds.    *)
(***************************************************************************)
EXTENDS Bags, FiniteSets, Integers, Sequences, TLC

VARIABLES
    environ,    \* os.environ: a function from the names that are set to their values
    now,        \* the system clock, in microseconds
    pc,         \* the main module: "init", "serving" or "failed"
    listen,     \* the <<host, port>> pairs the server is bound to
    pending     \* the responses built and not yet written to their clients

vars == <<environ, now, pc, listen, pending>>

\* ------------------------------------------------------------------ bounds

\* The responses that may be in flight at once (one server thread each).
MaxInflight == 2

\* The last clock reading of a run.
MaxClock == 2

\* Microseconds per second, scaled down.
UsPerSec == 2

\* --------------------------------------------------------------- strings

Str8080 == <<"8", "0", "8", "0">>
Str8000 == <<"8", "0", "0", "0">>
StrPadded == <<" ", "8", "0">>
StrAbc == <<"a", "b", "c">>
StrEmpty == <<>>
StrStaging == <<"s", "t", "g">>
StrProduction == <<"p", "r", "o", "d">>

\* The values the environment gives to PORT and to FLASK_ENV.
PortValues == {Str8080, StrPadded, StrAbc}
FlaskEnvValues == {StrStaging, StrEmpty}

EnvValues(k) == IF k = "PORT" THEN PortValues ELSE FlaskEnvValues

EnvNames == {"FLASK_ENV", "PORT"}

\* Every state of os.environ over the two names the program reads.
Environs ==
    UNION {{e \in [S -> PortValues \cup FlaskEnvValues] :
               \A k \in S : e[k] \in EnvValues(k)} : S \in SUBSET EnvNames}

\* os.getenv(key, default)
getenv(env, key, default) == IF key \in DOMAIN env THEN env[key] ELSE default

\* ----------------------------------------------------------------- int()

DigitChars == <<"0", "1", "2", "3", "4", "5", "6", "7", "8", "9">>

IsDigit(c) == \E i \in 1..Len(DigitChars) : DigitChars[i] = c

DigitVal(c) == (CHOOSE i \in 1..Len(DigitChars) : DigitChars[i] = c) - 1

RECURSIVE lstrip(_)
lstrip(s) == IF s # <<>> /\ Head(s) = " " THEN lstrip(Tail(s)) ELSE s

RECURSIVE rstrip(_)
rstrip(s) ==
    IF s # <<>> /\ s[Len(s)] = " " THEN rstrip(SubSeq(s, 1, Len(s) - 1)) ELSE s

strip(s) == rstrip(lstrip(s))

\* Whether int(s) returns (TRUE) or raises ValueError (FALSE), for a string
\* of digits, letters and blanks.
int_ok(s) ==
    LET t == strip(s)
    IN  t # <<>> /\ \A i \in 1..Len(t) : IsDigit(t[i])

RECURSIVE DecimalValue(_)
DecimalValue(t) ==
    IF t = <<>> THEN 0
    ELSE 10 * DecimalValue(SubSeq(t, 1, Len(t) - 1)) + DigitVal(t[Len(t)])

\* int(s) where int_ok(s)
int_of(s) == DecimalValue(strip(s))

\* ------------------------------------------------------------- datetime

\* datetime.now(): the clock reading split into seconds and microseconds.
datetime_now(t) == [sec |-> t \div UsPerSec, us |-> t % UsPerSec]

\* datetime.isoformat(): the fields from the most significant down, the
\* microsecond field left out when it is zero.
isoformat(dt) == IF dt.us = 0 THEN <<dt.sec>> ELSE <<dt.sec, dt.us>>

\* The order of two isoformat strings as strings: field by field, a proper
\* prefix before its extensions.
RECURSIVE StrLeq(_, _)
StrLeq(a, b) ==
    IF a = <<>> THEN TRUE
    ELSE IF b = <<>> THEN FALSE
    ELSE IF Head(a) # Head(b) THEN Head(a) < Head(b)
    ELSE StrLeq(Tail(a), Tail(b))

\* -------------------------------------------------------------- responses

\* sys.version and platform.platform(): fixed for the life of the process.
sys_version == "3.x"
platform_platform == "Linux"

\* jsonify(obj): a response of mimetype application/json, status 200.
jsonify(obj) ==
    [status |-> 200, ctype |-> "application/json",
     body |-> [kind |-> "json", obj |-> obj]]

\* A view's return value (response, status).
with_status(resp, code) == [resp EXCEPT !.status = code]

\* home with `os.getenv('FLASK_ENV') or 'production'`: an empty value is
\* taken for an unset one.
home_or(env, t) ==
    jsonify([message |-> "Hello from Dockerized Python!",
             timestamp |-> isoformat(datetime_now(t)),
             environment |-> IF getenv(env, "FLASK_ENV", StrEmpty) = StrEmpty
                             THEN StrProduction
                             ELSE env["FLASK_ENV"],
             version |-> "1.0.0"])

\* home with the timestamp taken once, when the module is loaded.
home_frozen(env, t) ==
    jsonify([message |-> "Hello from Dockerized Python!",
             timestamp |-> isoformat(datetime_now(0)),
             environment |-> getenv(env, "FLASK_ENV", StrProduction),
             version |-> "1.0.0"])

home(env, t) ==
    jsonify([message |-> "Hello from Dockerized Python!",
             timestamp |-> isoformat(datetime_now(t)),
             environment |-> getenv(env, "FLASK_ENV", StrProduction),
             version |-> "1.0.0"])

\* health answering 204 with the same body.
health_no_content(env, t) == with_status(jsonify([status |-> "healthy"]), 204)

health(env, t) == with_status(jsonify([status |-> "healthy"]), 200)

\* info reporting the port it parsed rather than the variable's text.
info_canonical(env, t) ==
    jsonify([python_version |-> sys_version,
             platform |-> platform_platform,
             flask_env |-> getenv(env, "FLASK_ENV", StrProduction),
             port |-> strip(getenv(env, "PORT", Str8000))])

\* info with the environment name under the key home uses.
info_renamed(env, t) ==
    jsonify([python_version |-> sys_version,
             platform |-> platform_platform,
             environment |-> getenv(env, "FLASK_ENV", StrProduction),
             port |-> getenv(env, "PORT", Str8000)])

info(env, t) ==
    jsonify([python_version |-> sys_version,
             platform |-> platform_platform,
             flask_env |-> getenv(env, "FLASK_ENV", StrProduction),
             port |-> getenv(env, "PORT", Str8000)])

\* The framework's own 404 page, as sent when no handler is registered.
not_found_unregistered ==
    [status |-> 404, ctype |-> "text/html",
     body |-> [kind |-> "html", text |-> "Not Found"]]

not_found == with_status(jsonify([error |-> "Not found"]), 404)

\* The framework's own 500 page, as sent when no handler is registered.
internal_error_unregistered ==
    [status |-> 500, ctype |-> "text/html",
     body |-> [kind |-> "html", text |-> "Internal Server Error"]]

internal_error == with_status(jsonify([error |-> "Internal server error"]), 500)

\* ---------------------------------------------------------------- routing

\* The methods a request may carry and the paths it may name.
Methods == {"GET", "POST", "OPTIONS"}
Paths == {"/", "/health", "/api/info", "/unknown-path"}

\* @app.route(rule) with no methods argument: the view answers GET (and
\* HEAD), and the application answers OPTIONS itself.
RouteMethods == {"GET", "HEAD", "OPTIONS"}

\* The rules registered on app, each with its endpoint.
url_map == [p \in {"/", "/health", "/api/info"} |->
               CASE p = "/" -> "home"
                 [] p = "/health" -> "health"
                 [] p = "/api/info" -> "info"]

\* The view function of an endpoint, called.
view(endpoint, env, t) ==
    CASE endpoint = "home" -> home(env, t)
      [] endpoint = "health" -> health(env, t)
      [] endpoint = "info" -> info(env, t)

\* No handler is registered for 405: the framework's own error page.
method_not_allowed ==
    [status |-> 405, ctype |-> "text/html",
     body |-> [kind |-> "html", text |-> "Method Not Allowed"]]

\* The automatic answer to OPTIONS on a registered rule: an empty response.
default_options_response ==
    [status |-> 200, ctype |-> "text/html", body |-> [kind |-> "empty"]]

\* Whether the request reaches a view function.
reaches_view(method, path) == path \in DOMAIN url_map /\ method = "GET"

\* app's answer to one request: match the rule, then the method, then call
\* the view; the registered error handlers answer 404 (and 500).
dispatch(method, path, env, t) ==
    IF path \notin DOMAIN url_map THEN not_found
    ELSE IF method \notin RouteMethods THEN method_not_allowed
    ELSE IF method = "OPTIONS" THEN default_options_response
    ELSE view(url_map[path], env, t)

\* A response in flight, with the request it answers and whether the view
\* raised while serving it.
answer(method, path, faulted, resp) ==
    [method |-> method, path |-> path, faulted |-> faulted, resp |-> resp]

\* ----------------------------------------------------------------- actions

DefaultPort == 8000

Host == "0.0.0.0"

\* main falling back to the default port when PORT does not parse.
main_fallback ==
    /\ pc = "init"
    /\ pc' = "serving"
    /\ listen' = {<<Host, IF "PORT" \in DOMAIN environ /\ int_ok(environ["PORT"])
                         THEN int_of(environ["PORT"])
                         ELSE DefaultPort>>}
    /\ UNCHANGED <<environ, now, pending>>

\* if __name__ == '__main__': port = int(os.getenv('PORT', 8000)); app.run(...)
main ==
    /\ pc = "init"
    /\ IF "PORT" \in DOMAIN environ /\ ~int_ok(environ["PORT"])
       THEN /\ pc' = "failed"
            /\ listen' = {}
       ELSE /\ pc' = "serving"
            /\ listen' = {<<Host, IF "PORT" \in DOMAIN environ
                                 THEN int_of(environ["PORT"])
                                 ELSE DefaultPort>>}
    /\ UNCHANGED <<environ, now, pending>>

\* Handle with a response cache keyed by method and path: a response still
\* in flight for the same request line is sent again.
Handle_cached(method, path) ==
    /\ pc = "serving"
    /\ BagCardinality(pending) < MaxInflight
    /\ LET hits == {r \in BagToSet(pending) : r.method = method /\ r.path = path}
       IN  IF hits # {}
           THEN \E r \in hits : pending' = pending (+) SetToBag({r})
           ELSE pending' = pending (+)
                           SetToBag({answer(method, path, FALSE,
                                            dispatch(method, path, environ, now))})
    /\ UNCHANGED <<environ, now, pc, listen>>

\* One request served by app: the response is built from the environment and
\* the clock as they are now.
Handle(method, path) ==
    /\ pc = "serving"
    /\ BagCardinality(pending) < MaxInflight
    /\ pending' = pending (+)
                  SetToBag({answer(method, path, FALSE,
                                   dispatch(method, path, environ, now))})
    /\ UNCHANGED <<environ, now, pc, listen>>

\* A view function raises: the 500 handler builds the response.
HandleFault(method, path) ==
    /\ pc = "serving"
    /\ BagCardinality(pending) < MaxInflight
    /\ reaches_view(method, path)
    /\ pending' = pending (+) SetToBag({answer(method, path, TRUE, internal_error)})
    /\ UNCHANGED <<environ, now, pc, listen>>

\* A response is written to its client.
Send(r) ==
    /\ BagIn(r, pending)
    /\ pending' = pending (-) SetToBag({r})
    /\ UNCHANGED <<environ, now, pc, listen>>

\* The clock advances.
Tick ==
    /\ now < MaxClock
    /\ now' = now + 1
    /\ UNCHANGED <<environ, pc, listen, pending>>

\* os.environ[k] = v while the server runs.
SetEnv(k, v) ==
    /\ pc = "serving"
    /\ environ' = [n \in DOMAIN environ \cup {k} |-> IF n = k THEN v ELSE environ[n]]
    /\ environ' # environ
    /\ UNCHANGED <<now, pc, listen, pending>>

\* del os.environ[k] while the server runs.
UnsetEnv(k) ==
    /\ pc = "serving"
    /\ k \in DOMAIN environ
    /\ environ' = [n \in DOMAIN environ \ {k} |-> environ[n]]
    /\ UNCHANGED <<now, pc, listen, pending>>

Init ==
    /\ environ \in Environs
    /\ now = 0
    /\ pc = "init"
    /\ listen = {}
    /\ pending = EmptyBag

Next ==
    \/ main
    \/ \E m \in Methods, p \in Paths : Handle(m, p)
    \/ \E r \in BagToSet(pending) : Send(r)
    \/ Tick
    \/ \E k \in EnvNames : \E v \in EnvValues(k) : SetEnv(k, v)
    \/ \E k \in EnvNames : UnsetEnv(k)

Spec == Init /\ [][Next]_vars

NextFault ==
    \/ Next
    \/ \E m \in Methods, p \in Paths : HandleFault(m, p)

SpecFault == Init /\ [][NextFault]_vars

\* ------------------------------------------------------------ properties

Registered == DOMAIN url_map

InFlight == BagToSet(pending)

\* The answers a step adds to those in flight.
Added == {r \in BagToSet(pending') : CopiesIn(r, pending') > CopiesIn(r, pending)}

JsonBody(obj) == [kind |-> "json", obj |-> obj]

IsGet(r, path) == r.method = "GET" /\ r.path = path /\ ~r.faulted

\* C1: every GET /health is answered 200 with the body {"status": "healthy"},
\* whatever FLASK_ENV and PORT hold and whatever was served before.
C1_HealthAlwaysHealthy ==
    \A r \in InFlight :
        IsGet(r, "/health") =>
            /\ r.resp.status = 200
            /\ r.resp.body = JsonBody([status |-> "healthy"])

\* A GET /health answered beside an earlier answer, with both variables set.
C1_Witness ==
    /\ DOMAIN environ = EnvNames
    /\ BagCardinality(pending) = MaxInflight
    /\ \E r \in InFlight : IsGet(r, "/health") /\ r.resp.status = 200

C3_EveryResponseJson ==
    \A r \in InFlight :
        r.resp.ctype = "application/json" /\ r.resp.body.kind = "json"

\* The environment name a handler is to report under the environment env.
EnvName(env) == IF "FLASK_ENV" \in DOMAIN env THEN env["FLASK_ENV"] ELSE StrProduction

\* C4: the environment field of GET / and the flask_env field of GET
\* /api/info both equal FLASK_ENV as it is when the request is handled, the
\* empty string included, and "production" when it is unset.
C4_EnvironmentName ==
    [][\A r \in Added :
          /\ IsGet(r, "/") => r.resp.body.obj.environment = EnvName(environ)
          /\ IsGet(r, "/api/info") => r.resp.body.obj.flask_env = EnvName(environ)]_vars

\* Both endpoints answered with FLASK_ENV set to the empty string.
C4_Witness ==
    /\ "FLASK_ENV" \in DOMAIN environ /\ environ["FLASK_ENV"] = StrEmpty
    /\ \E r \in InFlight : IsGet(r, "/") /\ r.resp.body.obj.environment = StrEmpty
    /\ \E r \in InFlight : IsGet(r, "/api/info") /\ r.resp.body.obj.flask_env = StrEmpty

\* C5: GET /api/info is answered 200 and its port field is the text of PORT
\* as it is when the request is handled, or "8000" when PORT is unset.
C5_PortField ==
    [][\A r \in Added :
          IsGet(r, "/api/info") =>
              /\ r.resp.status = 200
              /\ r.resp.body.obj.port =
                     (IF "PORT" \in DOMAIN environ THEN environ["PORT"] ELSE Str8000)]_vars

\* /api/info answered with a PORT that is no integer, and with one that
\* int() accepts only after stripping it.
C5_Witness ==
    /\ \E r \in InFlight : IsGet(r, "/api/info") /\ r.resp.body.obj.port = StrAbc
    /\ \E r \in InFlight : IsGet(r, "/api/info") /\ r.resp.body.obj.port = StrPadded

\* C6: GET / is answered 200 with exactly the keys message, timestamp,
\* environment and version, the fixed greeting and version "1.0.0"; the
\* timestamp is the clock reading of the step that handles the request, so
\* it is not before the timestamp of any GET / handled earlier.
C6_Home ==
    [][\A r \in Added :
          IsGet(r, "/") =>
              /\ r.resp.status = 200
              /\ r.resp.body.kind = "json"
              /\ DOMAIN r.resp.body.obj =
                     {"message", "timestamp", "environment", "version"}
              /\ r.resp.body.obj.version = "1.0.0"
              /\ r.resp.body.obj.message = "Hello from Dockerized Python!"
              /\ r.resp.body.obj.timestamp =
                     (IF now % UsPerSec = 0
                      THEN <<now \div UsPerSec>>
                      ELSE <<now \div UsPerSec, now % UsPerSec>>)
              /\ \A q \in InFlight :
                     IsGet(q, "/") =>
                         StrLeq(q.resp.body.obj.timestamp,
                                r.resp.body.obj.timestamp)]_vars

\* Two GET / answered at different times, the later one on a whole second.
C6_Witness ==
    \E q, r \in InFlight :
        /\ IsGet(q, "/") /\ IsGet(r, "/")
        /\ Len(q.resp.body.obj.timestamp) = 2
        /\ Len(r.resp.body.obj.timestamp) = 1
        /\ r.resp.body.obj.timestamp # <<0>>

\* C7 as stated: the keys of the GET /api/info object are runtime_version,
\* platform_description, environment and port.
C7_KeysAsStated ==
    \A r \in InFlight :
        IsGet(r, "/api/info") =>
            /\ r.resp.status = 200
            /\ DOMAIN r.resp.body.obj =
                   {"runtime_version", "platform_description", "environment", "port"}

\* C7 amended: GET /api/info is answered 200 with an object whose keys are
\* exactly python_version, platform, flask_env and port.
C7_KeysOfInfo ==
    \A r \in InFlight :
        IsGet(r, "/api/info") =>
            /\ r.resp.status = 200
            /\ r.resp.body.kind = "json"
            /\ DOMAIN r.resp.body.obj =
                   {"python_version", "platform", "flask_env", "port"}

\* A GET /api/info answered.
C7_Witness == \E r \in InFlight : IsGet(r, "/api/info") /\ r.resp.status = 200

\* C8: a request whose view raises is answered 500 with the body {"error":
\* "Internal server error"}; the server goes on serving, and the step
\* changes nothing a later request reads: the environment, the clock, the
\* server's state and the other answers in flight are as before.
C8_FaultIs500 ==
    /\ [](\A r \in InFlight :
             r.faulted =>
                 /\ r.resp.status = 500
                 /\ r.resp.ctype = "application/json"
                 /\ r.resp.body = JsonBody([error |-> "Internal server error"])
                 /\ pc = "serving")
    /\ [][\A r \in Added :
             r.faulted =>
                 /\ UNCHANGED <<environ, now, pc, listen>>
                 /\ pending' = pending (+) SetToBag({r})]_vars

\* A view raised, and a request handled after it is answered as usual.
C8_Witness ==
    /\ \E r \in InFlight : r.faulted /\ r.path = "/health"
    /\ \E r \in InFlight : IsGet(r, "/health") /\ r.resp.status = 200
    /\ pc = "serving"

\* C9: the answer to a request is determined by its method and path, the
\* environment and the clock reading of the step that handles it, whatever
\* is in flight and whatever was served before; handling it changes neither
\* the environment nor the clock nor the server's state nor any answer
\* already in flight.
C9_Stateless ==
    [][\A r \in Added :
          /\ r.resp = dispatch(r.method, r.path, environ, now)
          /\ UNCHANGED <<environ, now, pc, listen>>
          /\ \A q \in InFlight : CopiesIn(q, pending') >= CopiesIn(q, pending)]_vars

\* Two answers to the same request line in flight at once, built under
\* different environments.
C9_Witness ==
    \E q, r \in InFlight :
        /\ IsGet(q, "/api/info") /\ IsGet(r, "/api/info")
        /\ q.resp.body.obj.flask_env # r.resp.body.obj.flask_env

\* The port main is to listen on for each text of PORT that is an integer.
PortOf == [s \in {Str8080, StrPadded} |-> IF s = Str8080 THEN 8080 ELSE 80]

\* C10: main listens on 0.0.0.0 at the integer PORT holds when it starts, at
\* 8000 when PORT is unset, and fails without listening when PORT is no
\* integer, after which nothing is ever answered; once it listens, the
\* address never changes, whatever PORT is set to later.
C10_Startup ==
    /\ [](/\ pc = "failed" => listen = {} /\ pending = EmptyBag
          /\ pending # EmptyBag => pc = "serving"
          /\ pc = "serving" =>
                 /\ Cardinality(listen) = 1
                 /\ \A l \in listen : l[1] = "0.0.0.0" /\ l[2] \in Nat)
    /\ [][/\ pc = "init" /\ pc' # "init" =>
                 IF "PORT" \notin DOMAIN environ
                 THEN pc' = "serving" /\ listen' = {<<"0.0.0.0", 8000>>}
                 ELSE IF environ["PORT"] \in DOMAIN PortOf
                 THEN pc' = "serving" /\ listen' = {<<"0.0.0.0", PortOf[environ["PORT"]]>>}
                 ELSE pc' = "failed"
          /\ pc = "serving" => pc' = "serving" /\ listen' = listen
          /\ pc = "failed" => UNCHANGED <<pc, listen, pending>>
          /\ \A r \in Added :
                 ("PORT" \in DOMAIN environ /\ IsGet(r, "/api/info")) =>
                     r.resp.body.obj.port = environ["PORT"]]_vars

\* The server listens on 8080 and /api/info reports a PORT set afterwards.
C10_Witness ==
    /\ pc = "serving"
    /\ listen = {<<"0.0.0.0", 8080>>}
    /\ \E r \in InFlight : IsGet(r, "/api/info") /\ r.resp.body.obj.port = StrAbc

====
